---- MODULE Spec2Model ----
(***************************************************************************)
(* TTMCalculator (src/analysis/scripts/ttm_calculations.py): trailing      *)
(* twelve months income, 5-quarter average balances and the ROE / ROA /    *)
(* NIM ratios derived from them, over a panel of quarterly observations.   *)
(*                                                                         *)
(* Numbers.  A pandas cell, a sum, a mean or a ratio is either NaN or a    *)
(* rational number, kept as a reduced fraction num/den with den > 0.       *)
(* Floating point rounding is not modelled: every value is exact.          *)
(***************************************************************************)
EXTENDS Integers, Sequences, FiniteSets, TLC

VARIABLES quarter_sequence, df, columns, institution_code, period, last

vars == <<quarter_sequence, df, columns, institution_code, period, last>>

----------------------------------------------------------------------------
(* Bounds of the model.                                                    *)

\* Largest number of rows of an input series.
MaxRows == 5

----------------------------------------------------------------------------
(* Numbers: NaN or a reduced fraction.                                     *)

NaN == [nan |-> TRUE, num |-> 0, den |-> 1]

Abs(n) == IF n < 0 THEN -n ELSE n

RECURSIVE GCD(_, _)
GCD(a, b) == IF b = 0 THEN a ELSE GCD(b, a % b)

\* n/d for d # 0, reduced, with a positive denominator.
Frac(n, d) ==
    LET s == IF d < 0 THEN -1 ELSE 1
        g == GCD(Abs(n), Abs(d))
    IN  [nan |-> FALSE, num |-> (s * n) \div g, den |-> (s * d) \div g]

Num(n) == [nan |-> FALSE, num |-> n, den |-> 1]

\* pd.isna(x)
isna(x) == x.nan

\* x <= 0 on floats: False when x is NaN.
LeqZero(x) == ~x.nan /\ x.num <= 0

\* (a / b) * 100 for defined a and b, b # 0.
RatioPercent(a, b) == Frac(a.num * b.den * 100, a.den * b.num)

----------------------------------------------------------------------------
(* The canonical quarter sequence.                                         *)

FirstYear == 2013
StopYear == 2025

\* f"{year}Q{q}"
QuarterLabel(year, q) == ToString(year) \o "Q" \o ToString(q)

RECURSIVE QuartersFrom(_)
QuartersFrom(year) ==
    IF year >= StopYear THEN <<>>
    ELSE <<QuarterLabel(year, 1), QuarterLabel(year, 2),
           QuarterLabel(year, 3), QuarterLabel(year, 4)>> \o QuartersFrom(year + 1)

\* _generate_quarter_sequence whose years start one late.
_generate_quarter_sequence_StartsAYearLate == QuartersFrom(FirstYear + 1)

\* TTMCalculator._generate_quarter_sequence
_generate_quarter_sequence == QuartersFrom(FirstYear)

\* list.index(x): the 0-based index of the first occurrence, or -1 where
\* Python raises ValueError.
_get_period_index(seq, p) ==
    IF \E k \in 1..Len(seq) : seq[k] = p
    THEN (CHOOSE k \in 1..Len(seq) : seq[k] = p /\ \A j \in 1..(k - 1) : seq[j] # p) - 1
    ELSE -1

\* Python's seq[a:b] for 0-based bounds, negative bounds counted from the end.
PySlice(seq, a, b) ==
    LET n  == Len(seq)
        lo == IF a < 0 THEN (IF a + n < 0 THEN 0 ELSE a + n) ELSE (IF a > n THEN n ELSE a)
        hi == IF b < 0 THEN (IF b + n < 0 THEN 0 ELSE b + n) ELSE (IF b > n THEN n ELSE b)
    IN  IF lo >= hi THEN <<>> ELSE SubSeq(seq, lo + 1, hi)

\* x in list
isin(x, seq) == \E k \in 1..Len(seq) : seq[k] = x

----------------------------------------------------------------------------
(* Input series.                                                           *)

Insts == {"X", "Y"}

NomeOf(inst) == IF inst = "X" THEN "Banco X" ELSE "Banco Y"

\* Period arguments of the single-pair operations: index 2, 3, 4 and a label
\* outside the canonical sequence.
QueryPeriods == {"2013Q3", "2013Q4", "2014Q1", "2025Q1"}

FlowColumns == {"Lucro_Liquido", "Resultado_de_Intermediacao_Financeira"}
StockColumns == {"Patrimonio_Liquido", "Ativo_Total", "Carteira_de_Credito_Classificada"}

\* The columns the calculator reads: the key of an observation and the
\* fields it aggregates.  columns is the set of columns the table df has.
KeyColumns == {"CodInst", "NomeInstituicao", "AnoMes_Q"}
RequiredColumns == KeyColumns \cup FlowColumns \cup StockColumns

\* Numeric cells of one observation: a profitable quarter, a quarter of
\* distress (loss, negative equity, nothing left of assets and credit) and a
\* quarter whose figures are missing.
Profiles ==
    [ gain |-> [Lucro_Liquido |-> Num(1), Patrimonio_Liquido |-> Num(2),
                Ativo_Total |-> Num(5), Carteira_de_Credito_Classificada |-> Num(3),
                Resultado_de_Intermediacao_Financeira |-> Num(2)],
      loss |-> [Lucro_Liquido |-> Num(-1), Patrimonio_Liquido |-> Num(-3),
                Ativo_Total |-> Num(0), Carteira_de_Credito_Classificada |-> Num(0),
                Resultado_de_Intermediacao_Financeira |-> Num(-2)],
      gap  |-> [Lucro_Liquido |-> NaN, Patrimonio_Liquido |-> NaN,
                Ativo_Total |-> NaN, Carteira_de_Credito_Classificada |-> NaN,
                Resultado_de_Intermediacao_Financeira |-> NaN] ]

Row(inst, p, v) ==
    [CodInst |-> inst, NomeInstituicao |-> NomeOf(inst), AnoMes_Q |-> p] @@ v

\* Observations the loader may publish, in publication order: quarter by
\* quarter, X before Y within a quarter.  X reports every quarter, with either
\* set of figures; its latest quarter may also arrive without figures; Y only
\* reports the latest quarter.
RowUniverse ==
    << Row("X", "2013Q1", Profiles.gain), Row("X", "2013Q1", Profiles.loss),
       Row("X", "2013Q2", Profiles.gain), Row("X", "2013Q2", Profiles.loss),
       Row("X", "2013Q3", Profiles.gain), Row("X", "2013Q3", Profiles.loss),
       Row("X", "2013Q4", Profiles.gain), Row("X", "2013Q4", Profiles.loss),
       Row("X", "2014Q1", Profiles.gain), Row("X", "2014Q1", Profiles.loss),
       Row("X", "2014Q1", Profiles.gap),  Row("Y", "2014Q1", Profiles.gain) >>

\* Index sequences of n rows in publication order.  The same observation may
\* be published more than once, and two observations of one (institution,
\* quarter) may both be published.
RECURSIVE PublicationsOfLen(_)
PublicationsOfLen(n) ==
    IF n = 0 THEN {<<>>}
    ELSE UNION { { Append(s, k) :
                     k \in (IF s = <<>> THEN 1 ELSE s[Len(s)])..Len(RowUniverse) } :
                 s \in PublicationsOfLen(n - 1) }

SeriesOfLen(n) ==
    { [j \in 1..n |-> RowUniverse[s[j]]] : s \in PublicationsOfLen(n) }

\* One observation with the given figures.
Obs(inst, p, lucro, patrimonio, ativo, carteira, resultado) ==
    Row(inst, p, [Lucro_Liquido |-> lucro, Patrimonio_Liquido |-> patrimonio,
                  Ativo_Total |-> ativo, Carteira_de_Credito_Classificada |-> carteira,
                  Resultado_de_Intermediacao_Financeira |-> resultado])

\* Institution X over five quarters: four quarters of income 10, 12, 11, 13
\* after a quarter without an income figure, and equity 100, 102, 104, 106, 108.
ScenarioHealthy ==
    << Obs("X", "2013Q1", NaN,     Num(100), Num(1000), Num(600), NaN),
       Obs("X", "2013Q2", Num(10), Num(102), Num(1010), Num(606), Num(15)),
       Obs("X", "2013Q3", Num(12), Num(104), Num(1020), Num(612), Num(18)),
       Obs("X", "2013Q4", Num(11), Num(106), Num(1030), Num(618), Num(17)),
       Obs("X", "2014Q1", Num(13), Num(108), Num(1040), Num(624), Num(20)) >>

\* The same institution with one negative equity reading that drags the
\* five-quarter average below zero.
ScenarioDistress ==
    [ScenarioHealthy EXCEPT ![3] = [@ EXCEPT !.Patrimonio_Liquido = Num(-600)]]

SeriesSet ==
    UNION { SeriesOfLen(n) : n \in 0..MaxRows } \cup {ScenarioHealthy, ScenarioDistress}

----------------------------------------------------------------------------
(* pandas column reductions (skipna=True).                                 *)

RECURSIVE SumNum(_, _)
SumNum(rows, col) ==
    IF rows = <<>> THEN 0
    ELSE (IF isna(Head(rows)[col]) THEN 0 ELSE Head(rows)[col].num) + SumNum(Tail(rows), col)

RECURSIVE CountNum(_, _)
CountNum(rows, col) ==
    IF rows = <<>> THEN 0
    ELSE (IF isna(Head(rows)[col]) THEN 0 ELSE 1) + CountNum(Tail(rows), col)

\* Series.sum(): NaN cells are skipped, the sum of nothing is 0.
ColumnSum(rows, col) == Num(SumNum(rows, col))

\* Series.mean(): NaN cells are skipped, the mean of nothing is NaN.
ColumnMean(rows, col) ==
    IF CountNum(rows, col) = 0 THEN NaN
    ELSE Frac(SumNum(rows, col), CountNum(rows, col))

----------------------------------------------------------------------------
(* TTMCalculator operations.  self is the calculator's quarter_sequence.   *)
(* Each returns its value together with what it did to the series:         *)
(* scanned (the series was filtered) and inst_data (the index labels of    *)
(* the rows the filter kept, in series order).                             *)

\* The filter without its institution mask: df[df['AnoMes_Q'].isin(quarters)].
Filter_IgnoresInstitution(d, inst, quarters) ==
    SelectSeq([k \in 1..Len(d) |-> k], LAMBDA k : isin(d[k].AnoMes_Q, quarters))

\* df[(df['CodInst'] == inst) & (df['AnoMes_Q'].isin(quarters))]: the index
\* labels (1-based here) of the rows the mask keeps.
Filter(d, inst, quarters) ==
    SelectSeq([k \in 1..Len(d) |-> k],
              LAMBDA k : d[k].CodInst = inst /\ isin(d[k].AnoMes_Q, quarters))

\* df.loc[labels]
Rows(d, labels) == [j \in 1..Len(labels) |-> d[labels[j]]]

\* calculate_ttm_income whose guard only rejects the indices 0, 1, 2, so that
\* the index -1 of an unknown label reaches the slice.
calculate_ttm_income_NegativeIndexPasses(self, d, inst, p, income_column) ==
    LET period_idx == _get_period_index(self, p)
        last_4_quarters == PySlice(self, period_idx - 3, period_idx + 1)
        inst_data == Filter(d, inst, last_4_quarters)
    IN  IF 0 <= period_idx /\ period_idx < 3
        THEN [value |-> NaN, scanned |-> FALSE, inst_data |-> <<>>]
        ELSE IF Len(inst_data) < 4
        THEN [value |-> NaN, scanned |-> TRUE, inst_data |-> inst_data]
        ELSE [value |-> ColumnSum(Rows(d, inst_data), income_column),
              scanned |-> TRUE, inst_data |-> inst_data]

\* calculate_ttm_income that takes a sum of zero for a missing one
\* (a truth test of the sum: `if not ttm_income: return np.nan`).
calculate_ttm_income_ZeroSumIsMissing(self, d, inst, p, income_column) ==
    LET period_idx == _get_period_index(self, p)
        last_4_quarters == PySlice(self, period_idx - 3, period_idx + 1)
        inst_data == Filter(d, inst, last_4_quarters)
        ttm_income == ColumnSum(Rows(d, inst_data), income_column)
    IN  IF period_idx < 3
        THEN [value |-> NaN, scanned |-> FALSE, inst_data |-> <<>>]
        ELSE IF Len(inst_data) < 4
        THEN [value |-> NaN, scanned |-> TRUE, inst_data |-> inst_data]
        ELSE [value |-> IF ttm_income = Num(0) THEN NaN ELSE ttm_income,
              scanned |-> TRUE, inst_data |-> inst_data]

calculate_ttm_income(self, d, inst, p, income_column) ==
    LET period_idx == _get_period_index(self, p)
        last_4_quarters == PySlice(self, period_idx - 3, period_idx + 1)
        inst_data == Filter(d, inst, last_4_quarters)
    IN  IF period_idx < 3
        THEN [value |-> NaN, scanned |-> FALSE, inst_data |-> <<>>]
        ELSE IF Len(inst_data) < 4
        THEN [value |-> NaN, scanned |-> TRUE, inst_data |-> inst_data]
        ELSE [value |-> ColumnSum(Rows(d, inst_data), income_column),
              scanned |-> TRUE, inst_data |-> inst_data]

\* calculate_average_balance that is content with four rows (len < 4).
calculate_average_balance_AcceptsFourRows(self, d, inst, p, balance_column) ==
    LET period_idx == _get_period_index(self, p)
        last_5_quarters == PySlice(self, period_idx - 4, period_idx + 1)
        inst_data == Filter(d, inst, last_5_quarters)
    IN  IF period_idx < 4
        THEN [value |-> NaN, scanned |-> FALSE, inst_data |-> <<>>]
        ELSE IF Len(inst_data) < 4
        THEN [value |-> NaN, scanned |-> TRUE, inst_data |-> inst_data]
        ELSE [value |-> ColumnMean(Rows(d, inst_data), balance_column),
              scanned |-> TRUE, inst_data |-> inst_data]

\* calculate_average_balance that averages the opening and the closing
\* balance of the window, taken as its first and its last row:
\* (inst_data[col].iloc[0] + inst_data[col].iloc[-1]) / 2.
calculate_average_balance_OpeningAndClosing(self, d, inst, p, balance_column) ==
    LET period_idx == _get_period_index(self, p)
        last_5_quarters == PySlice(self, period_idx - 4, period_idx + 1)
        inst_data == Filter(d, inst, last_5_quarters)
        ends == <<d[inst_data[1]], d[inst_data[Len(inst_data)]]>>
    IN  IF period_idx < 4
        THEN [value |-> NaN, scanned |-> FALSE, inst_data |-> <<>>]
        ELSE IF Len(inst_data) < 5
        THEN [value |-> NaN, scanned |-> TRUE, inst_data |-> inst_data]
        ELSE [value |-> ColumnMean(ends, balance_column),
              scanned |-> TRUE, inst_data |-> inst_data]

calculate_average_balance(self, d, inst, p, balance_column) ==
    LET period_idx == _get_period_index(self, p)
        last_5_quarters == PySlice(self, period_idx - 4, period_idx + 1)
        inst_data == Filter(d, inst, last_5_quarters)
    IN  IF period_idx < 4
        THEN [value |-> NaN, scanned |-> FALSE, inst_data |-> <<>>]
        ELSE IF Len(inst_data) < 5
        THEN [value |-> NaN, scanned |-> TRUE, inst_data |-> inst_data]
        ELSE [value |-> ColumnMean(Rows(d, inst_data), balance_column),
              scanned |-> TRUE, inst_data |-> inst_data]

\* calculate_roe_ttm whose guard only rejects an average equity of exactly
\* zero, so that a negative average equity is divided into.
calculate_roe_ttm_DividesIntoNegativeEquity(self, d, inst, p) ==
    LET ttm_income == calculate_ttm_income(self, d, inst, p, "Lucro_Liquido").value
        avg_equity == calculate_average_balance(self, d, inst, p, "Patrimonio_Liquido").value
        roe == IF isna(ttm_income) \/ isna(avg_equity) \/ avg_equity.num = 0
               THEN NaN
               ELSE RatioPercent(ttm_income, avg_equity)
    IN  [value |-> roe,
         details |-> [ttm_net_income |-> ttm_income,
                      avg_equity |-> avg_equity,
                      roe_percent |-> roe,
                      methodology |-> "TTM Income / Average Equity (5Q)"]]

\* calculate_roe_ttm that returns the plain ratio, not the percentage.
calculate_roe_ttm_NotAPercentage(self, d, inst, p) ==
    LET ttm_income == calculate_ttm_income(self, d, inst, p, "Lucro_Liquido").value
        avg_equity == calculate_average_balance(self, d, inst, p, "Patrimonio_Liquido").value
        roe == IF isna(ttm_income) \/ isna(avg_equity) \/ LeqZero(avg_equity)
               THEN NaN
               ELSE Frac(ttm_income.num * avg_equity.den, ttm_income.den * avg_equity.num)
    IN  [value |-> roe,
         details |-> [ttm_net_income |-> ttm_income,
                      avg_equity |-> avg_equity,
                      roe_percent |-> roe,
                      methodology |-> "TTM Income / Average Equity (5Q)"]]

\* calculate_roe_ttm that blanks the audit figures together with the ratio
\* when the ratio is undefined.
calculate_roe_ttm_BlanksAuditWithRatio(self, d, inst, p) ==
    LET ttm_income == calculate_ttm_income(self, d, inst, p, "Lucro_Liquido").value
        avg_equity == calculate_average_balance(self, d, inst, p, "Patrimonio_Liquido").value
        roe == IF isna(ttm_income) \/ isna(avg_equity) \/ LeqZero(avg_equity)
               THEN NaN
               ELSE RatioPercent(ttm_income, avg_equity)
    IN  [value |-> roe,
         details |-> [ttm_net_income |-> IF isna(roe) THEN NaN ELSE ttm_income,
                      avg_equity |-> IF isna(roe) THEN NaN ELSE avg_equity,
                      roe_percent |-> roe,
                      methodology |-> "TTM Income / Average Equity (5Q)"]]

calculate_roe_ttm(self, d, inst, p) ==
    LET ttm_income == calculate_ttm_income(self, d, inst, p, "Lucro_Liquido").value
        avg_equity == calculate_average_balance(self, d, inst, p, "Patrimonio_Liquido").value
        roe == IF isna(ttm_income) \/ isna(avg_equity) \/ LeqZero(avg_equity)
               THEN NaN
               ELSE RatioPercent(ttm_income, avg_equity)
    IN  [value |-> roe,
         details |-> [ttm_net_income |-> ttm_income,
                      avg_equity |-> avg_equity,
                      roe_percent |-> roe,
                      methodology |-> "TTM Income / Average Equity (5Q)"]]

\* calculate_roa_ttm that still averages the equity column of the ROE code it
\* was copied from.
calculate_roa_ttm_AveragesEquity(self, d, inst, p) ==
    LET ttm_income == calculate_ttm_income(self, d, inst, p, "Lucro_Liquido").value
        avg_assets == calculate_average_balance(self, d, inst, p, "Patrimonio_Liquido").value
        roa == IF isna(ttm_income) \/ isna(avg_assets) \/ LeqZero(avg_assets)
               THEN NaN
               ELSE RatioPercent(ttm_income, avg_assets)
    IN  [value |-> roa,
         details |-> [ttm_net_income |-> ttm_income,
                      avg_assets |-> avg_assets,
                      roa_percent |-> roa,
                      methodology |-> "TTM Income / Average Assets (5Q)"]]

calculate_roa_ttm(self, d, inst, p) ==
    LET ttm_income == calculate_ttm_income(self, d, inst, p, "Lucro_Liquido").value
        avg_assets == calculate_average_balance(self, d, inst, p, "Ativo_Total").value
        roa == IF isna(ttm_income) \/ isna(avg_assets) \/ LeqZero(avg_assets)
               THEN NaN
               ELSE RatioPercent(ttm_income, avg_assets)
    IN  [value |-> roa,
         details |-> [ttm_net_income |-> ttm_income,
                      avg_assets |-> avg_assets,
                      roa_percent |-> roa,
                      methodology |-> "TTM Income / Average Assets (5Q)"]]

\* a + b on floats: NaN if either is NaN.
AddNum(a, b) ==
    IF isna(a) \/ isna(b) THEN NaN
    ELSE Frac(a.num * b.den + b.num * a.den, a.den * b.den)

\* calculate_nim_ttm whose earning assets are the credit portfolio plus the
\* average total assets.
calculate_nim_ttm_AddsTotalAssets(self, d, inst, p) ==
    LET ttm_interest_income ==
            calculate_ttm_income(self, d, inst, p,
                                 "Resultado_de_Intermediacao_Financeira").value
        credit_avg ==
            calculate_average_balance(self, d, inst, p,
                                      "Carteira_de_Credito_Classificada").value
        avg_earning_assets ==
            AddNum(credit_avg,
                   calculate_average_balance(self, d, inst, p, "Ativo_Total").value)
        nim == IF isna(ttm_interest_income) \/ isna(avg_earning_assets)
                  \/ LeqZero(avg_earning_assets)
               THEN NaN
               ELSE RatioPercent(ttm_interest_income, avg_earning_assets)
    IN  [value |-> nim,
         details |-> [ttm_net_interest_income |-> ttm_interest_income,
                      avg_earning_assets |-> avg_earning_assets,
                      nim_percent |-> nim,
                      methodology |-> "TTM Interest Result / Average Credit Portfolio"]]

calculate_nim_ttm(self, d, inst, p) ==
    LET ttm_interest_income ==
            calculate_ttm_income(self, d, inst, p,
                                 "Resultado_de_Intermediacao_Financeira").value
        credit_avg ==
            calculate_average_balance(self, d, inst, p,
                                      "Carteira_de_Credito_Classificada").value
        avg_earning_assets == credit_avg
        nim == IF isna(ttm_interest_income) \/ isna(avg_earning_assets)
                  \/ LeqZero(avg_earning_assets)
               THEN NaN
               ELSE RatioPercent(ttm_interest_income, avg_earning_assets)
    IN  [value |-> nim,
         details |-> [ttm_net_interest_income |-> ttm_interest_income,
                      avg_earning_assets |-> avg_earning_assets,
                      nim_percent |-> nim,
                      methodology |-> "TTM Interest Result / Average Credit Portfolio"]]

----------------------------------------------------------------------------
(* Missing columns.  Selecting a column the table does not have raises     *)
(* KeyError.  Each predicate says whether the call raises; it reads the    *)
(* columns exactly where the operation does, so a call that returns before *)
(* it touches the table, or before it touches the aggregated column, does  *)
(* not raise.                                                              *)

\* What a call that ended in this exception leaves instead of a return value.
Raised == [raised |-> "KeyError"]

\* df['CodInst'] and df['AnoMes_Q'] once the period guard is passed, then
\* inst_data[income_column] once 4 rows are found.
KeyError_calculate_ttm_income(self, cols, d, inst, p, income_column) ==
    LET r == calculate_ttm_income(self, d, inst, p, income_column)
    IN  \/ (~({"CodInst", "AnoMes_Q"} \subseteq cols) /\ r.scanned)
        \/ (income_column \notin cols /\ r.scanned /\ Len(r.inst_data) >= 4)

KeyError_calculate_average_balance(self, cols, d, inst, p, balance_column) ==
    LET r == calculate_average_balance(self, d, inst, p, balance_column)
    IN  \/ (~({"CodInst", "AnoMes_Q"} \subseteq cols) /\ r.scanned)
        \/ (balance_column \notin cols /\ r.scanned /\ Len(r.inst_data) >= 5)

KeyError_calculate_roe_ttm(self, cols, d, inst, p) ==
    \/ KeyError_calculate_ttm_income(self, cols, d, inst, p, "Lucro_Liquido")
    \/ KeyError_calculate_average_balance(self, cols, d, inst, p, "Patrimonio_Liquido")

KeyError_calculate_roa_ttm(self, cols, d, inst, p) ==
    \/ KeyError_calculate_ttm_income(self, cols, d, inst, p, "Lucro_Liquido")
    \/ KeyError_calculate_average_balance(self, cols, d, inst, p, "Ativo_Total")

KeyError_calculate_nim_ttm(self, cols, d, inst, p) ==
    \/ KeyError_calculate_ttm_income(self, cols, d, inst, p,
                                     "Resultado_de_Intermediacao_Financeira")
    \/ KeyError_calculate_average_balance(self, cols, d, inst, p,
                                          "Carteira_de_Credito_Classificada")

----------------------------------------------------------------------------
(* calculate_all_ttm_ratios.                                               *)

\* Python's None, which is not a number.
None == [none |-> TRUE]

RECURSIVE Pow10(_)
Pow10(n) == IF n = 0 THEN 1 ELSE 10 * Pow10(n - 1)

\* The integer nearest to n/d (d > 0), a tie going to the even one.
RoundHalfEven(n, d) ==
    LET q == n \div d
        r == n - q * d
    IN  IF 2 * r < d THEN q
        ELSE IF 2 * r > d THEN q + 1
        ELSE IF q % 2 = 0 THEN q ELSE q + 1

\* round that cuts the digits off instead of rounding them.
round_Truncates(x, ndigits) ==
    Frac((x.num * Pow10(ndigits)) \div x.den, Pow10(ndigits))

\* round(x, ndigits) for a defined x.
round(x, ndigits) ==
    Frac(RoundHalfEven(x.num * Pow10(ndigits), x.den), Pow10(ndigits))

\* df[['CodInst', 'NomeInstituicao', 'AnoMes_Q']].drop_duplicates(): the
\* index labels of the rows whose three key cells occur for the first time.
drop_duplicates(d) ==
    SelectSeq([k \in 1..Len(d) |-> k],
              LAMBDA k : \A j \in 1..(k - 1) :
                  <<d[j].CodInst, d[j].NomeInstituicao, d[j].AnoMes_Q>>
                    # <<d[k].CodInst, d[k].NomeInstituicao, d[k].AnoMes_Q>>)

\* The dict appended to results for one row of combinations.
result(self, d, row) ==
    LET inst == row.CodInst
        p    == row.AnoMes_Q
        roe  == calculate_roe_ttm(self, d, inst, p)
        roa  == calculate_roa_ttm(self, d, inst, p)
        nim  == calculate_nim_ttm(self, d, inst, p)
    IN  [CodInst |-> inst,
         NomeInstituicao |-> row.NomeInstituicao,
         AnoMes_Q |-> p,
         ROE_TTM |-> IF ~isna(roe.value) THEN round(roe.value, 4) ELSE None,
         ROA_TTM |-> IF ~isna(roa.value) THEN round(roa.value, 4) ELSE None,
         NIM_TTM |-> IF ~isna(nim.value) THEN round(nim.value, 4) ELSE None,
         TTM_Net_Income |-> roe.details.ttm_net_income,
         Avg_Equity |-> roe.details.avg_equity,
         Avg_Assets |-> roa.details.avg_assets,
         Calculation_Method |-> "BACEN_TTM_Standard"]

RatioColumns == {"ROE_TTM", "ROA_TTM", "NIM_TTM"}

\* pd.DataFrame(results) for a non-empty list of dicts: a column that holds a
\* number becomes a float column, in which None is stored as NaN; a column of
\* None alone keeps its None.
DataFrame(results) ==
    [j \in 1..Len(results) |->
        [c \in DOMAIN results[j] |->
            IF /\ c \in RatioColumns
               /\ results[j][c] = None
               /\ \E i \in 1..Len(results) : results[i][c] # None
            THEN NaN
            ELSE results[j][c]]]

\* The whole batch: KeyError if a key column is missing, if one of the calls
\* made for a combination raises, or, with no combination at all, when the
\* summary selects 'ROE_TTM' from a table built from an empty list, which
\* has no columns.
calculate_all_ttm_ratios(self, cols, d) ==
    LET combinations == drop_duplicates(d)
        results == [j \in 1..Len(combinations) |-> result(self, d, d[combinations[j]])]
    IN  IF ~(KeyColumns \subseteq cols)
        THEN Raised
        ELSE IF \E j \in 1..Len(combinations) :
                  LET row == d[combinations[j]]
                  IN  \/ KeyError_calculate_roe_ttm(self, cols, d, row.CodInst, row.AnoMes_Q)
                      \/ KeyError_calculate_roa_ttm(self, cols, d, row.CodInst, row.AnoMes_Q)
                      \/ KeyError_calculate_nim_ttm(self, cols, d, row.CodInst, row.AnoMes_Q)
        THEN Raised
        ELSE IF results = <<>>
        THEN Raised
        ELSE [combinations |-> combinations, results_df |-> DataFrame(results)]

----------------------------------------------------------------------------
(* The state machine: a calculator, a series and the arguments of the      *)
(* calls, drawn at the start; every action is one call, whose return value *)
(* replaces the previous one in last.                                      *)

NoCall == [op |-> "none"]

Init ==
    /\ quarter_sequence = _generate_quarter_sequence
    /\ df \in SeriesSet
    /\ columns = RequiredColumns
    /\ institution_code \in Insts
    /\ period \in QueryPeriods
    /\ last = NoCall

\* calculate_ttm_income that keeps the window it sliced as the calculator's
\* quarter sequence.
CalcTtmIncome_NarrowsQuarterSequence ==
    /\ \E col \in FlowColumns :
          last' = [op |-> "calculate_ttm_income", column |-> col]
                  @@ IF KeyError_calculate_ttm_income(quarter_sequence, columns, df,
                                                      institution_code, period, col)
                     THEN Raised
                     ELSE calculate_ttm_income(quarter_sequence, df, institution_code, period, col)
    /\ quarter_sequence' =
          LET period_idx == _get_period_index(quarter_sequence, period)
          IN  IF period_idx < 3 THEN quarter_sequence
              ELSE PySlice(quarter_sequence, period_idx - 3, period_idx + 1)
    /\ UNCHANGED <<df, columns, institution_code, period>>

CalcTtmIncome ==
    /\ \E col \in FlowColumns :
          last' = [op |-> "calculate_ttm_income", column |-> col]
                  @@ IF KeyError_calculate_ttm_income(quarter_sequence, columns, df,
                                                      institution_code, period, col)
                     THEN Raised
                     ELSE calculate_ttm_income(quarter_sequence, df, institution_code, period, col)
    /\ UNCHANGED <<quarter_sequence, df, columns, institution_code, period>>

\* calculate_average_balance that narrows the caller's table to the rows of
\* the institution instead of working on a copy of them.
CalcAverageBalance_FiltersInPlace ==
    /\ \E col \in StockColumns :
          last' = [op |-> "calculate_average_balance", column |-> col]
                  @@ IF KeyError_calculate_average_balance(quarter_sequence, columns, df,
                                                           institution_code, period, col)
                     THEN Raised
                     ELSE calculate_average_balance(quarter_sequence, df, institution_code, period, col)
    /\ df' = SelectSeq(df, LAMBDA r : r.CodInst = institution_code)
    /\ UNCHANGED <<quarter_sequence, columns, institution_code, period>>

CalcAverageBalance ==
    /\ \E col \in StockColumns :
          last' = [op |-> "calculate_average_balance", column |-> col]
                  @@ IF KeyError_calculate_average_balance(quarter_sequence, columns, df,
                                                           institution_code, period, col)
                     THEN Raised
                     ELSE calculate_average_balance(quarter_sequence, df, institution_code, period, col)
    /\ UNCHANGED <<quarter_sequence, df, columns, institution_code, period>>

CalcRoeTtm ==
    /\ last' = [op |-> "calculate_roe_ttm"]
               @@ IF KeyError_calculate_roe_ttm(quarter_sequence, columns, df,
                                               institution_code, period)
                  THEN Raised
                  ELSE calculate_roe_ttm(quarter_sequence, df, institution_code, period)
    /\ UNCHANGED <<quarter_sequence, df, columns, institution_code, period>>

CalcRoaTtm ==
    /\ last' = [op |-> "calculate_roa_ttm"]
               @@ IF KeyError_calculate_roa_ttm(quarter_sequence, columns, df,
                                               institution_code, period)
                  THEN Raised
                  ELSE calculate_roa_ttm(quarter_sequence, df, institution_code, period)
    /\ UNCHANGED <<quarter_sequence, df, columns, institution_code, period>>

CalcNimTtm ==
    /\ last' = [op |-> "calculate_nim_ttm"]
               @@ IF KeyError_calculate_nim_ttm(quarter_sequence, columns, df,
                                               institution_code, period)
                  THEN Raised
                  ELSE calculate_nim_ttm(quarter_sequence, df, institution_code, period)
    /\ UNCHANGED <<quarter_sequence, df, columns, institution_code, period>>

Next ==
    \/ CalcTtmIncome
    \/ CalcAverageBalance
    \/ CalcRoeTtm
    \/ CalcRoaTtm
    \/ CalcNimTtm

Spec == Init /\ [][Next]_vars

\* The batch operation; it reads neither institution_code nor period.
CalcAllTtmRatios ==
    /\ last' = [op |-> "calculate_all_ttm_ratios"]
               @@ calculate_all_ttm_ratios(quarter_sequence, columns, df)
    /\ UNCHANGED <<quarter_sequence, df, columns, institution_code, period>>

----------------------------------------------------------------------------
(* Vocabulary of the properties, stated on the series itself.              *)

\* 1-based position of the label p in the canonical sequence, 0 if absent.
Ordinal(p) ==
    IF \E k \in 1..Len(quarter_sequence) : quarter_sequence[k] = p
    THEN CHOOSE k \in 1..Len(quarter_sequence) : quarter_sequence[k] = p
    ELSE 0

\* The n consecutive quarters ending at p; empty if p is unknown or the
\* window starts before the canonical sequence does.
WindowQuarters(p, n) ==
    IF Ordinal(p) < n THEN {}
    ELSE { quarter_sequence[k] : k \in (Ordinal(p) - n + 1)..Ordinal(p) }

\* The quarters of that window in which inst has at least one observation.
ObservedQuarters(inst, p, n) ==
    { q \in WindowQuarters(p, n) :
        \E j \in 1..Len(df) : df[j].CodInst = inst /\ df[j].AnoMes_Q = q }

\* The observations of inst in that window, in series order.
WindowRows(inst, p, n) ==
    LET window == WindowQuarters(p, n)
    IN  SelectSeq(df, LAMBDA r : r.CodInst = inst /\ r.AnoMes_Q \in window)

QuartersOf(rows) == { rows[j].AnoMes_Q : j \in 1..Len(rows) }

ReturnedBy(op) == last.op = op

----------------------------------------------------------------------------
(* C1 - C5: the two window aggregates.                                     *)

\* C1: a defined TTM income is the sum of the flow column over exactly four
\* rows of the institution asked for, one for each of the quarters P-3..P.
C1_TtmSumsOneRowPerQuarter ==
    (ReturnedBy("calculate_ttm_income") /\ ~isna(last.value)) =>
        LET summed == Rows(df, last.inst_data)
        IN  /\ Len(summed) = 4
            /\ \A j \in 1..Len(summed) : summed[j].CodInst = institution_code
            /\ Cardinality(WindowQuarters(period, 4)) = 4
            /\ QuartersOf(summed) = WindowQuarters(period, 4)
            /\ last.value = Num(SumNum(summed, last.column))

\* C2: a defined average balance is the sum divided by 5 of exactly five
\* values of the stock column, one from the institution's row in each of the
\* quarters P-4..P.
C2_AverageIsMeanOfFiveQuarters ==
    (ReturnedBy("calculate_average_balance") /\ ~isna(last.value)) =>
        LET averaged == Rows(df, last.inst_data)
        IN  /\ Len(averaged) = 5
            /\ \A j \in 1..Len(averaged) :
                  /\ averaged[j].CodInst = institution_code
                  /\ ~isna(averaged[j][last.column])
            /\ Cardinality(WindowQuarters(period, 5)) = 5
            /\ QuartersOf(averaged) = WindowQuarters(period, 5)
            /\ last.value.num * 5 = SumNum(averaged, last.column) * last.value.den

\* C3: an institution observed in fewer than 4 of the distinct quarters
\* P-3..P gets an undefined TTM income for P.
C3_TtmUndefinedBelowFourQuarters ==
    (ReturnedBy("calculate_ttm_income")
       /\ Cardinality(ObservedQuarters(institution_code, period, 4)) < 4)
    => isna(last.value)

\* C4: an institution observed in fewer than 5 of the distinct quarters
\* P-4..P gets an undefined average balance for P.
C4_AverageUndefinedBelowFiveQuarters ==
    (ReturnedBy("calculate_average_balance")
       /\ Cardinality(ObservedQuarters(institution_code, period, 5)) < 5)
    => isna(last.value)

\* C5: for a label outside the canonical sequence, or one whose 0-based
\* index is below 3 (TTM income) or below 4 (average balance), the operation
\* returns NaN and never looks at the series; an unknown label selects no
\* window from the end of the sequence.
C5_EarlyOrUnknownPeriodIsUndefinedUnread ==
    /\ (ReturnedBy("calculate_ttm_income") /\ Ordinal(period) - 1 < 3)
         => (isna(last.value) /\ ~last.scanned /\ last.inst_data = <<>>)
    /\ (ReturnedBy("calculate_average_balance") /\ Ordinal(period) - 1 < 4)
         => (isna(last.value) /\ ~last.scanned /\ last.inst_data = <<>>)

\* C5 witness: the TTM income of X was asked for a label outside the
\* sequence, on a series holding five observations of X.
C5_Witness ==
    /\ ReturnedBy("calculate_ttm_income")
    /\ period = "2025Q1"
    /\ Ordinal(period) = 0
    /\ institution_code = "X"
    /\ Len(SelectSeq(df, LAMBDA r : r.CodInst = "X")) = 5
    /\ isna(last.value)

----------------------------------------------------------------------------
(* C6 - C10: the ratios.                                                   *)

\* What the two aggregates return for the arguments of the state.
TtmOf(col) ==
    calculate_ttm_income(quarter_sequence, df, institution_code, period, col).value

AverageOf(col) ==
    calculate_average_balance(quarter_sequence, df, institution_code, period, col).value

\* Sum and number of the defined cells of a column over the institution's
\* observations in the n quarters ending at the period of the state.
WindowSum(n, col) == SumNum(WindowRows(institution_code, period, n), col)

WindowCount(n, col) == CountNum(WindowRows(institution_code, period, n), col)

\* ratio = (income / (balance / count)) x 100, by cross-multiplication.
IsPercentOf(ratio, income, balance, count) ==
    /\ ~isna(ratio)
    /\ ratio.num * balance = ratio.den * income * count * 100

\* C6: the ROE is undefined exactly when the TTM net income is undefined, or
\* the average equity is undefined, or the average equity is <= 0.
C6_RoeUndefinedIffInputUndefinedOrEquityNotPositive ==
    ReturnedBy("calculate_roe_ttm") =>
        (isna(last.value) <=>
            \/ isna(TtmOf("Lucro_Liquido"))
            \/ isna(AverageOf("Patrimonio_Liquido"))
            \/ LeqZero(AverageOf("Patrimonio_Liquido")))

\* C6 witness: a positive TTM net income over a negative average equity, and
\* no ROE.
C6_Witness ==
    /\ ReturnedBy("calculate_roe_ttm")
    /\ ~isna(TtmOf("Lucro_Liquido")) /\ TtmOf("Lucro_Liquido").num > 0
    /\ ~isna(AverageOf("Patrimonio_Liquido")) /\ AverageOf("Patrimonio_Liquido").num < 0
    /\ isna(last.value)

\* C7: with a defined TTM net income and a defined average equity > 0, the
\* ROE is (sum of Lucro_Liquido over the quarters P-3..P) / (mean of
\* Patrimonio_Liquido over the quarters P-4..P) x 100; incomes 10, 12, 11, 13
\* over equity 100, 102, 104, 106, 108 give 46, 104 and 4600/104.
C7_RoeIsTtmIncomeOverAverageEquityPercent ==
    ReturnedBy("calculate_roe_ttm") =>
        /\ (/\ ~isna(TtmOf("Lucro_Liquido"))
            /\ ~isna(AverageOf("Patrimonio_Liquido"))
            /\ AverageOf("Patrimonio_Liquido").num > 0)
           => IsPercentOf(last.value, WindowSum(4, "Lucro_Liquido"),
                          WindowSum(5, "Patrimonio_Liquido"),
                          WindowCount(5, "Patrimonio_Liquido"))
        /\ (df = ScenarioHealthy /\ institution_code = "X" /\ period = "2014Q1")
           => /\ last.details.ttm_net_income = Num(46)
              /\ last.details.avg_equity = Num(104)
              /\ ~isna(last.value)
              /\ last.value.num * 104 = 4600 * last.value.den

\* C7 witness: the ROE of the example, 4600/104 = 575/13.
C7_Witness ==
    /\ ReturnedBy("calculate_roe_ttm")
    /\ df = ScenarioHealthy /\ institution_code = "X" /\ period = "2014Q1"
    /\ last.value = [nan |-> FALSE, num |-> 575, den |-> 13]

\* C8: the ROA is undefined exactly when the TTM net income is undefined, or
\* the average total assets are undefined or <= 0; otherwise it is TTM net
\* income / average Ativo_Total x 100; its TTM net income is the one the ROE
\* of the same institution and period is computed from.
C8_RoaIsRoeShapedOverAverageAssets ==
    ReturnedBy("calculate_roa_ttm") =>
        /\ isna(last.value) <=>
              \/ isna(TtmOf("Lucro_Liquido"))
              \/ isna(AverageOf("Ativo_Total"))
              \/ LeqZero(AverageOf("Ativo_Total"))
        /\ ~isna(last.value) =>
              IsPercentOf(last.value, WindowSum(4, "Lucro_Liquido"),
                          WindowSum(5, "Ativo_Total"), WindowCount(5, "Ativo_Total"))
        /\ last.details.avg_assets = AverageOf("Ativo_Total")
        /\ last.details.ttm_net_income =
              calculate_roe_ttm(quarter_sequence, df, institution_code, period)
                  .details.ttm_net_income

\* C8 witness: a defined ROA where the average equity differs from the
\* average assets.
C8_Witness ==
    /\ ReturnedBy("calculate_roa_ttm")
    /\ ~isna(last.value)
    /\ AverageOf("Patrimonio_Liquido") # AverageOf("Ativo_Total")
    /\ last.details.ttm_net_income = TtmOf("Lucro_Liquido")

C10_AuditKeepsNonPositiveAverageEquity ==
    ReturnedBy("calculate_roe_ttm") =>
        /\ LeqZero(AverageOf("Patrimonio_Liquido")) =>
              /\ isna(last.value)
              /\ isna(last.details.roe_percent)
              /\ ~isna(last.details.avg_equity)
              /\ last.details.avg_equity.num <= 0
              /\ last.details.avg_equity.num * WindowCount(5, "Patrimonio_Liquido")
                    = WindowSum(5, "Patrimonio_Liquido") * last.details.avg_equity.den
              /\ last.details.ttm_net_income = TtmOf("Lucro_Liquido")
        /\ isna(last.details.avg_equity) <=> isna(AverageOf("Patrimonio_Liquido"))

\* C10 witness: one negative equity reading drags the average of the example
\* to -184/5; the audit record shows it next to the TTM net income 46.
C10_Witness ==
    /\ ReturnedBy("calculate_roe_ttm")
    /\ df = ScenarioDistress /\ institution_code = "X" /\ period = "2014Q1"
    /\ isna(last.value)
    /\ last.details.avg_equity = [nan |-> FALSE, num |-> -184, den |-> 5]
    /\ last.details.ttm_net_income = Num(46)

----------------------------------------------------------------------------
(* C11: missing values inside a window.                                    *)

\* Some observation of inst in the n quarters ending at p has no value in col.
WindowHasGap(inst, p, n, col) ==
    LET rows == WindowRows(inst, p, n)
    IN  \E j \in 1..Len(rows) : isna(rows[j][col])

\* C11: a missing value is never counted as zero: when some row of the
\* 4-quarter window has no value in the flow column the TTM income is
\* undefined, and when some row of the 5-quarter window has no value in the
\* stock column the average balance is undefined.
C11_MissingValueIsNeverZero ==
    /\ (ReturnedBy("calculate_ttm_income")
          /\ WindowHasGap(institution_code, period, 4, last.column))
         => isna(last.value)
    /\ (ReturnedBy("calculate_average_balance")
          /\ WindowHasGap(institution_code, period, 5, last.column))
         => isna(last.value)

----------------------------------------------------------------------------
(* A second set of inputs: a panel whose rows arrive in any order.         *)

\* Largest number of rows of a panel.
MaxPanelRows == 5

\* The five quarters of X of ScenarioHealthy, the quarter of X that follows
\* them, and one quarter of Y.
PanelRows ==
    ScenarioHealthy \o
    << Obs("X", "2014Q2", Num(-4), Num(-90), Num(1050), Num(630), Num(9)),
       Obs("Y", "2014Q1", Num(7),  Num(50),  Num(300),  Num(90),  Num(12)) >>

\* Sequences of n different rows of PanelRows, in every order.
RECURSIVE ArrangementsOfLen(_)
ArrangementsOfLen(n) ==
    IF n = 0 THEN {<<>>}
    ELSE UNION { { Append(s, k) :
                     k \in (1..Len(PanelRows)) \ { s[j] : j \in 1..Len(s) } } :
                 s \in ArrangementsOfLen(n - 1) }

PanelSeries ==
    UNION { { [j \in 1..n |-> PanelRows[s[j]]] : s \in ArrangementsOfLen(n) } :
            n \in 0..MaxPanelRows }

\* (institution_code, period) arguments asked of a panel.
PanelQueries == { <<"X", "2013Q4">>, <<"X", "2014Q1">>, <<"Y", "2014Q1">> }

InitRelational ==
    /\ quarter_sequence = _generate_quarter_sequence
    /\ df \in PanelSeries
    /\ columns = RequiredColumns
    /\ \E q \in PanelQueries : institution_code = q[1] /\ period = q[2]
    /\ last = NoCall

SpecRelational == InitRelational /\ [][Next]_vars

----------------------------------------------------------------------------
(* C12, C18 - C20: how the result of a call moves with the series.         *)

\* The call recorded in last, made again on the series d.
CallOn(d) ==
    CASE last.op = "calculate_ttm_income" ->
           calculate_ttm_income(quarter_sequence, d, institution_code, period, last.column)
      [] last.op = "calculate_average_balance" ->
           calculate_average_balance(quarter_sequence, d, institution_code, period, last.column)
      [] last.op = "calculate_roe_ttm" ->
           calculate_roe_ttm(quarter_sequence, d, institution_code, period)
      [] last.op = "calculate_roa_ttm" ->
           calculate_roa_ttm(quarter_sequence, d, institution_code, period)
      [] last.op = "calculate_nim_ttm" ->
           calculate_nim_ttm(quarter_sequence, d, institution_code, period)

\* What a call hands back to its caller: the value and, for a ratio, the
\* audit details.
Outcome(r) == IF "details" \in DOMAIN r THEN <<r.value, r.details>> ELSE <<r.value>>

\* The rows of df that belong to institution_code and to the quarters P-4..P
\* (those of them the canonical sequence has), in series order.
OwnWindowOnly ==
    SelectSeq(df, LAMBDA r :
        /\ r.CodInst = institution_code
        /\ Ordinal(period) >= 1
        /\ Ordinal(r.AnoMes_Q) >= 1
        /\ Ordinal(r.AnoMes_Q) \in (Ordinal(period) - 4)..Ordinal(period))

WithoutRow(d, k) == SubSeq(d, 1, k - 1) \o SubSeq(d, k + 1, Len(d))

\* institution_code is observed exactly once in each of the five quarters
\* P-4..P.
HistoryIsExactlyFiveQuarters ==
    LET rows == WindowRows(institution_code, period, 5)
    IN  /\ Len(rows) = 5
        /\ Cardinality(QuartersOf(rows)) = 5
        /\ QuartersOf(rows) = WindowQuarters(period, 5)

Times(x, k) == IF isna(x) THEN NaN ELSE Frac(x.num * k, x.den)

\* The series d with every value of the column col multiplied by k.
Scaled(d, col, k) == [j \in 1..Len(d) |-> [d[j] EXCEPT ![col] = Times(@, k)]]

\* Integer factors a flow column is scaled by.
ScaleFactors == {-2, 0, 1, 3}

\* C19: the TTM income is linear in the flow column: on the series with every
\* value of the column multiplied by k, a defined TTM income is k times what
\* it was, and an undefined one stays undefined.
C19_TtmIncomeIsSumLinear ==
    ReturnedBy("calculate_ttm_income") =>
        \A k \in ScaleFactors :
            calculate_ttm_income(quarter_sequence, Scaled(df, last.column, k),
                                 institution_code, period, last.column).value
              = Times(last.value, k)

\* C19 witness: the TTM income 33 of X at 2013Q4, whose window holds a quarter
\* without an income figure, becomes -66 when the column is scaled by -2.
C19_Witness ==
    /\ ReturnedBy("calculate_ttm_income")
    /\ institution_code = "X" /\ period = "2013Q4"
    /\ last.column = "Lucro_Liquido"
    /\ last.value = Num(33)
    /\ calculate_ttm_income(quarter_sequence, Scaled(df, "Lucro_Liquido", -2),
                            institution_code, period, "Lucro_Liquido").value = Num(-66)

\* The series d with its rows i and j exchanged.
Swapped(d, i, j) == [d EXCEPT ![i] = d[j], ![j] = d[i]]

\* C20: the average balance does not depend on the order of the rows: it is
\* the same on the series with any two rows exchanged.  The series of
\* SpecRelational come in every order, and exchanges of two rows generate
\* every permutation, so this is invariance under every permutation of the
\* rows.
C20_AverageBalanceIsOrderInvariant ==
    ReturnedBy("calculate_average_balance") =>
        \A i, j \in 1..Len(df) :
            calculate_average_balance(quarter_sequence, Swapped(df, i, j),
                                      institution_code, period, last.column).value
              = last.value

\* C20 witness: the average equity 104 of X at 2014Q1, on a series that lists
\* the five quarters latest first.
C20_Witness ==
    /\ ReturnedBy("calculate_average_balance")
    /\ institution_code = "X" /\ period = "2014Q1"
    /\ last.column = "Patrimonio_Liquido"
    /\ Len(df) = 5
    /\ \A j \in 1..5 : df[j] = ScenarioHealthy[6 - j]
    /\ last.value = Num(104)
    /\ calculate_average_balance(quarter_sequence, Swapped(df, 1, 5),
                                 institution_code, period, last.column).value = Num(104)

----------------------------------------------------------------------------
(* The batch operation on tables of its own.                               *)

\* Largest number of rows of a generated batch table.
MaxBatchRows == 4

\* The five quarters of X, a second reading of X for 2013Q3 (the one of
\* ScenarioDistress), one quarter of Y, and the latest quarter of X reported
\* under another name of the institution.
BatchRows ==
    ScenarioHealthy \o
    << ScenarioDistress[3],
       PanelRows[7],
       [ScenarioHealthy[5] EXCEPT !.NomeInstituicao = "Banco X S.A."] >>

\* The table that lists the rows of BatchRows numbered by s.
BatchTable(s) == [j \in 1..Len(s) |-> BatchRows[s[j]]]

\* Three larger tables.
BatchScenarios == {ScenarioHealthy, ScenarioDistress, PanelRows}

\* The table is any of up to MaxBatchRows rows of BatchRows, in any order and
\* with repeated rows, or one of the three larger tables.
InitBatch ==
    /\ quarter_sequence = _generate_quarter_sequence
    /\ \/ \E n \in 0..MaxBatchRows :
             \E s \in [1..n -> 1..Len(BatchRows)] : df = BatchTable(s)
       \/ df \in BatchScenarios
    /\ columns = RequiredColumns
    /\ institution_code = "X"
    /\ period = "2014Q1"
    /\ last = NoCall

NextBatch == CalcAllTtmRatios

SpecBatch == InitBatch /\ [][NextBatch]_vars

----------------------------------------------------------------------------
(* C13 - C16: the result table.                                            *)

\* The batch operation returned a table.
ReturnedTable == ReturnedBy("calculate_all_ttm_ratios") /\ "results_df" \in DOMAIN last

PairOf(row) == <<row.CodInst, row.AnoMes_Q>>

\* The (institution code, period) pairs of a table, as a set.
PairsOf(rows) == { PairOf(rows[j]) : j \in 1..Len(rows) }

\* The pairs of a table in the order in which each first occurs.
RECURSIVE FirstOccurrences(_)
FirstOccurrences(rows) ==
    IF rows = <<>> THEN <<>>
    ELSE LET front == FirstOccurrences(SubSeq(rows, 1, Len(rows) - 1))
             pair  == PairOf(rows[Len(rows)])
         IN  IF \E j \in 1..Len(front) : front[j] = pair
             THEN front
             ELSE Append(front, pair)

\* C13: the result table has exactly one row for each distinct (CodInst,
\* AnoMes_Q) pair of the input, and no other row: as many rows as the input
\* has distinct pairs, also when the input holds several rows of one pair.
C13_OneOutputRowPerPair ==
    ReturnedTable =>
        /\ PairsOf(last.results_df) = PairsOf(df)
        /\ Len(last.results_df) = Cardinality(PairsOf(df))

\* A cell without a value: None, or the NaN a float column stores for it.
Missing(cell) == IF cell = None THEN TRUE ELSE isna(cell)

\* y is v rounded to 4 decimal places: a multiple of 1/10000 at a distance of
\* at most 1/20000 from v.
IsRoundedTo4(y, v) ==
    /\ ~isna(y)
    /\ 10000 % y.den = 0
    /\ Abs(y.num * v.den - v.num * y.den) * 20000 <= y.den * v.den

\* The ratio cell of a result row against the value the single operation
\* returns for the row's institution and period.
RatioCellAgrees(cell, value) ==
    IF isna(value) THEN Missing(cell) ELSE (~Missing(cell) /\ IsRoundedTo4(cell, value))

\* C14: every row of the result table carries, for its (i, P): each ratio as
\* the single operation's value rounded to 4 decimal places, or no value
\* exactly when that operation returns NaN; the TTM net income, average
\* equity and average assets of the audit details of calculate_roe_ttm and
\* calculate_roa_ttm, whether or not the ratio is defined; and the tag
\* 'BACEN_TTM_Standard'.
C14_RowCarriesRoundedRatiosAndAudit ==
    ReturnedTable =>
        \A j \in 1..Len(last.results_df) :
            LET row == last.results_df[j]
                roe == calculate_roe_ttm(quarter_sequence, df, row.CodInst, row.AnoMes_Q)
                roa == calculate_roa_ttm(quarter_sequence, df, row.CodInst, row.AnoMes_Q)
                nim == calculate_nim_ttm(quarter_sequence, df, row.CodInst, row.AnoMes_Q)
            IN  /\ RatioCellAgrees(row.ROE_TTM, roe.value)
                /\ RatioCellAgrees(row.ROA_TTM, roa.value)
                /\ RatioCellAgrees(row.NIM_TTM, nim.value)
                /\ row.TTM_Net_Income = roe.details.ttm_net_income
                /\ row.Avg_Equity = roe.details.avg_equity
                /\ row.Avg_Assets = roa.details.avg_assets
                /\ row.Calculation_Method = "BACEN_TTM_Standard"

\* C14 witness: the result table of ScenarioHealthy.  The row of 2013Q4 has
\* no ROE (four quarters of balance) but its TTM net income 33; the row of
\* 2014Q1 has ROE 44.2308 (575/13), ROA 4.5098, NIM 11.4379 and the averages
\* they were computed from.
C14_Witness ==
    /\ ReturnedTable
    /\ df = ScenarioHealthy
    /\ Len(last.results_df) = 5
    /\ Missing(last.results_df[4].ROE_TTM)
    /\ last.results_df[4].TTM_Net_Income = Num(33)
    /\ last.results_df[5].ROE_TTM = Frac(442308, 10000)
    /\ last.results_df[5].ROA_TTM = Frac(45098, 10000)
    /\ last.results_df[5].NIM_TTM = Frac(114379, 10000)
    /\ last.results_df[5].Avg_Equity = Num(104)
    /\ last.results_df[5].Avg_Assets = Num(1020)

\* C15: the rows of the result table follow the input: their pairs are the
\* distinct (CodInst, AnoMes_Q) pairs of the input in the order in which each
\* first occurs.
C15_RowsFollowFirstOccurrence ==
    ReturnedTable =>
        [j \in 1..Len(last.results_df) |-> PairOf(last.results_df[j])]
          = FirstOccurrences(df)

\* C16: on a table that has every required column the batch operation
\* returns a result table and does not raise, whatever the rows are.
C16_BatchNeverRaises ==
    (ReturnedBy("calculate_all_ttm_ratios") /\ RequiredColumns \subseteq columns)
        => ReturnedTable

----------------------------------------------------------------------------
(* Tables that lack a column.                                              *)

\* The tables asked about: the first n rows of PanelRows.
SchemaSeries == { SubSeq(PanelRows, 1, n) : n \in 0..MaxPanelRows }

\* Every required column but one, or all of them.
SchemaColumns == { RequiredColumns \ {c} : c \in RequiredColumns } \cup {RequiredColumns}

InitSchema ==
    /\ quarter_sequence = _generate_quarter_sequence
    /\ df \in SchemaSeries
    /\ columns \in SchemaColumns
    /\ institution_code \in Insts
    /\ period \in QueryPeriods
    /\ last = NoCall

NextSchema == Next \/ CalcAllTtmRatios

SpecSchema == InitSchema /\ [][NextSchema]_vars

----------------------------------------------------------------------------
(* C17: malformed input.                                                   *)

\* The columns the call recorded in last reads: the two it filters by and the
\* fields it aggregates; for the batch operation, every required column.
ColumnsReadBy(call) ==
    CASE call.op \in {"calculate_ttm_income", "calculate_average_balance"} ->
           {"CodInst", "AnoMes_Q", call.column}
      [] call.op = "calculate_roe_ttm" ->
           {"CodInst", "AnoMes_Q", "Lucro_Liquido", "Patrimonio_Liquido"}
      [] call.op = "calculate_roa_ttm" ->
           {"CodInst", "AnoMes_Q", "Lucro_Liquido", "Ativo_Total"}
      [] call.op = "calculate_nim_ttm" ->
           {"CodInst", "AnoMes_Q", "Resultado_de_Intermediacao_Financeira",
            "Carteira_de_Credito_Classificada"}
      [] call.op = "calculate_all_ttm_ratios" -> RequiredColumns

\* C17: a call on a table that lacks a column it reads raises, for every
\* series and period: it never returns a value, NaN or a table instead.
C17_MissingColumnAlwaysRaises ==
    (last.op # "none" /\ ~(ColumnsReadBy(last) \subseteq columns))
        => "raised" \in DOMAIN last

----------------------------------------------------------------------------
(* Behaviours in which all six operations are called, in any order and any *)
(* number of times, on one calculator and one series.                      *)

NextCalls ==
    \/ CalcTtmIncome
    \/ CalcAverageBalance
    \/ CalcRoeTtm
    \/ CalcRoaTtm
    \/ CalcNimTtm
    \/ CalcAllTtmRatios

\* The panels, and the series of the distress scenario.
InitCalls ==
    /\ quarter_sequence = _generate_quarter_sequence
    /\ df \in PanelSeries \cup {ScenarioDistress}
    /\ columns = RequiredColumns
    /\ \E q \in PanelQueries : institution_code = q[1] /\ period = q[2]
    /\ last = NoCall

SpecCalls == InitCalls /\ [][NextCalls]_vars

----------------------------------------------------------------------------
(* C21, C23: what a call leaves behind.                                    *)

\* C21: idempotence.  No call changes the calculator's quarter sequence, and
\* whatever calls came before it, calculate_roe_ttm returns the ROE and the
\* audit record that a newly constructed calculator returns for the same
\* series and arguments; called again at once it returns the same again.
C21_RoeTtmIsIdempotent ==
    [][ /\ quarter_sequence' = quarter_sequence
        /\ (last.op = "calculate_roe_ttm" /\ last'.op = "calculate_roe_ttm")
              => last' = last
        /\ last'.op = "calculate_roe_ttm"
              => Outcome(last') =
                   Outcome(calculate_roe_ttm(_generate_quarter_sequence, df',
                                             institution_code', period')) ]_vars

\* C21 witness: calculate_roe_ttm returned a defined ROE of X at 2014Q1 with
\* its audit record, on a calculator whose quarter sequence is the one it
\* was constructed with.
C21_Witness ==
    /\ ReturnedBy("calculate_roe_ttm")
    /\ institution_code = "X" /\ period = "2014Q1"
    /\ ~isna(last.value)
    /\ last.details.roe_percent = last.value
    /\ quarter_sequence = _generate_quarter_sequence

\* C23: frame condition.  Every call of the six operations, whether it
\* returns a value, NaN or a table or raises, leaves the series as it was:
\* the same rows in the same order with the same values.
C23_CallsLeaveSeriesUnchanged ==
    [][ df' = df ]_vars

\* C23 witness: the batch operation returned a table for a series whose
\* first row is of a later quarter than its second; the series is still in
\* that order.
C23_Witness ==
    /\ ReturnedTable
    /\ Len(df) >= 2
    /\ Ordinal(df[1].AnoMes_Q) > Ordinal(df[2].AnoMes_Q)

----------------------------------------------------------------------------
(* The loop of calculate_all_ttm_ratios run by workers: each takes a row   *)
(* of combinations that no worker has taken, makes the three ratio calls   *)
(* on the shared series one after the other, and appends its dict to the   *)
(* shared list; the steps of different workers interleave in every way.    *)
(* last holds the state of the loop: the rows not yet taken, each worker's *)
(* local variables and the list.                                           *)

\* Largest number of rows of a table handed to the workers.
MaxWorkRows == 5

Workers == {"w1", "w2"}

\* A worker between two rows.
Idle == [stage |-> "idle"]

\* The tables handed to the workers: the first n rows of PanelRows.
WorkTables == { SubSeq(PanelRows, 1, n) : n \in 0..MaxWorkRows }

InitWorkers ==
    /\ quarter_sequence = _generate_quarter_sequence
    /\ df \in WorkTables
    /\ columns = RequiredColumns
    /\ institution_code = "X"
    /\ period = "2014Q1"
    /\ last = NoCall

\* results = [] and combinations = ...drop_duplicates().
StartWorkers ==
    /\ last = NoCall
    /\ KeyColumns \subseteq columns
    /\ last' = [op |-> "workers",
                combinations |-> drop_duplicates(df),
                todo |-> 1..Len(drop_duplicates(df)),
                local |-> [w \in Workers |-> Idle],
                results |-> <<>>]
    /\ UNCHANGED <<quarter_sequence, df, columns, institution_code, period>>

\* for idx, row in combinations.iterrows(): one worker takes one row.
WorkerTake ==
    /\ last.op = "workers"
    /\ \E w \in Workers : \E j \in last.todo :
          /\ last.local[w] = Idle
          /\ last' = [last EXCEPT
                        !.todo = @ \ {j},
                        !.local[w] = [stage |-> "roe", row |-> df[last.combinations[j]]]]
    /\ UNCHANGED <<quarter_sequence, df, columns, institution_code, period>>

\* roe, roe_details = self.calculate_roe_ttm(df, institution_code, period)
WorkerRoe ==
    /\ last.op = "workers"
    /\ \E w \in Workers :
          /\ last.local[w].stage = "roe"
          /\ last' = [last EXCEPT !.local[w] =
                 [stage |-> "roa", row |-> @.row,
                  roe |-> calculate_roe_ttm(quarter_sequence, df, @.row.CodInst, @.row.AnoMes_Q)]]
    /\ UNCHANGED <<quarter_sequence, df, columns, institution_code, period>>

\* roa, roa_details = self.calculate_roa_ttm(df, institution_code, period)
WorkerRoa ==
    /\ last.op = "workers"
    /\ \E w \in Workers :
          /\ last.local[w].stage = "roa"
          /\ last' = [last EXCEPT !.local[w] =
                 [stage |-> "nim", row |-> @.row, roe |-> @.roe,
                  roa |-> calculate_roa_ttm(quarter_sequence, df, @.row.CodInst, @.row.AnoMes_Q)]]
    /\ UNCHANGED <<quarter_sequence, df, columns, institution_code, period>>

\* nim, nim_details = self.calculate_nim_ttm(df, institution_code, period)
WorkerNim ==
    /\ last.op = "workers"
    /\ \E w \in Workers :
          /\ last.local[w].stage = "nim"
          /\ last' = [last EXCEPT !.local[w] =
                 [stage |-> "append", row |-> @.row, roe |-> @.roe, roa |-> @.roa,
                  nim |-> calculate_nim_ttm(quarter_sequence, df, @.row.CodInst, @.row.AnoMes_Q)]]
    /\ UNCHANGED <<quarter_sequence, df, columns, institution_code, period>>

\* The dict a worker builds from its local variables.
WorkerResult(local) ==
    [CodInst |-> local.row.CodInst,
     NomeInstituicao |-> local.row.NomeInstituicao,
     AnoMes_Q |-> local.row.AnoMes_Q,
     ROE_TTM |-> IF ~isna(local.roe.value) THEN round(local.roe.value, 4) ELSE None,
     ROA_TTM |-> IF ~isna(local.roa.value) THEN round(local.roa.value, 4) ELSE None,
     NIM_TTM |-> IF ~isna(local.nim.value) THEN round(local.nim.value, 4) ELSE None,
     TTM_Net_Income |-> local.roe.details.ttm_net_income,
     Avg_Equity |-> local.roe.details.avg_equity,
     Avg_Assets |-> local.roa.details.avg_assets,
     Calculation_Method |-> "BACEN_TTM_Standard"]

\* A worker whose dict replaces the shared list.
WorkerAppend_ReplacesResults ==
    /\ last.op = "workers"
    /\ \E w \in Workers :
          /\ last.local[w].stage = "append"
          /\ last' = [last EXCEPT
                        !.results = <<WorkerResult(last.local[w])>>,
                        !.local[w] = Idle]
    /\ UNCHANGED <<quarter_sequence, df, columns, institution_code, period>>

\* results.append(result)
WorkerAppend ==
    /\ last.op = "workers"
    /\ \E w \in Workers :
          /\ last.local[w].stage = "append"
          /\ last' = [last EXCEPT
                        !.results = Append(@, WorkerResult(last.local[w])),
                        !.local[w] = Idle]
    /\ UNCHANGED <<quarter_sequence, df, columns, institution_code, period>>

\* After the loop: results_df = pd.DataFrame(results) and the summary, which
\* raises on a table without columns.
WorkersFinish ==
    /\ last.op = "workers"
    /\ last.todo = {}
    /\ \A w \in Workers : last.local[w] = Idle
    /\ last' = [op |-> "workers_done"]
               @@ IF last.results = <<>> THEN Raised
                  ELSE [results_df |-> DataFrame(last.results)]
    /\ UNCHANGED <<quarter_sequence, df, columns, institution_code, period>>

NextWorkers ==
    \/ StartWorkers
    \/ WorkerTake
    \/ WorkerRoe
    \/ WorkerRoa
    \/ WorkerNim
    \/ WorkerAppend
    \/ WorkersFinish

SpecWorkers == InitWorkers /\ [][NextWorkers]_vars

----------------------------------------------------------------------------
(* C22: the order of the per-pair computations.                            *)

\* The rows of a table as a set.
RowSet(rows) == { rows[j] : j \in 1..Len(rows) }

\* What the sequential loop returns for the series.
Sequential == calculate_all_ttm_ratios(quarter_sequence, columns, df)

\* C22: however the workers' steps interleave, the loop ends with the rows
\* that the sequential loop returns, each of them once, or raises where the
\* sequential loop raises.
C22_WorkersProduceTheSequentialRows ==
    (last.op = "workers_done") =>
        IF "raised" \in DOMAIN Sequential
        THEN "raised" \in DOMAIN last
        ELSE /\ "results_df" \in DOMAIN last
             /\ RowSet(last.results_df) = RowSet(Sequential.results_df)
             /\ Len(last.results_df) = Len(Sequential.results_df)

\* C22 witness: the workers ended with the rows in another order than the
\* sequential loop's, one of them with a defined ROE.
C22_Witness ==
    /\ last.op = "workers_done"
    /\ "results_df" \in DOMAIN last
    /\ last.results_df # Sequential.results_df
    /\ \E j \in 1..Len(last.results_df) : ~Missing(last.results_df[j].ROE_TTM)

----------------------------------------------------------------------------
(* calculate_basic_ttm_ratios, the script that computes ROE and ROA from   *)
(* the rows of each institution taken by position after a sort.            *)

\* Rank of a period label in the order of strings.  The labels of the
\* series are labels of the canonical sequence, which lists them in string
\* order ("2013Q4" < "2014Q1").
StringRank(label) == _get_period_index(_generate_quarter_sequence, label)

\* df['CodInst'].unique(): the codes in order of first appearance.
unique(d) ==
    LET firsts == SelectSeq([k \in 1..Len(d) |-> k],
                            LAMBDA k : \A j \in 1..(k - 1) : d[j].CodInst # d[k].CodInst)
    IN  [j \in 1..Len(firsts) |-> d[firsts[j]].CodInst]

\* .sort_values('AnoMes_Q') on the rows with the index labels S: every
\* ordering of the labels by period.  The default sort is not stable, so
\* rows of one period may come out in any order; rows that are equal in
\* every cell are interchangeable and are listed in index order.
RECURSIVE sort_values(_, _)
sort_values(d, S) ==
    IF S = {} THEN {<<>>}
    ELSE LET first == { k \in S :
                          /\ \A j \in S :
                                StringRank(d[k].AnoMes_Q) <= StringRank(d[j].AnoMes_Q)
                          /\ \A j \in S : d[j] = d[k] => j >= k }
         IN  UNION { { <<k>> \o t : t \in sort_values(d, S \ {k}) } : k \in first }

\* The possible outcomes of the sorts of one run: for each code of
\* unique(d), in that order, the sorted index labels of its rows.
RECURSIVE SortOutcomes(_, _)
SortOutcomes(d, codes) ==
    IF codes = <<>> THEN {<<>>}
    ELSE { <<s>> \o rest :
             s \in sort_values(d, { k \in 1..Len(d) : d[k].CodInst = Head(codes) }),
             rest \in SortOutcomes(d, Tail(codes)) }

\* x > 0 on floats: False when x is NaN.
GtZero(x) == ~x.nan /\ x.num > 0

\* The dict appended to ttm_results for position i (0-based) of inst_data,
\* the sorted index labels of one institution.
basic_result(d, inst_data, i) ==
    LET last_4_quarters == Rows(d, PySlice(inst_data, i - 3, i + 1))
        equity_periods  == IF i >= 4 THEN Rows(d, PySlice(inst_data, i - 4, i + 1))
                           ELSE last_4_quarters
        ttm_net_income  == ColumnSum(last_4_quarters, "Lucro_Liquido")
        avg_equity      == ColumnMean(equity_periods, "Patrimonio_Liquido")
        avg_assets      == ColumnMean(equity_periods, "Ativo_Total")
        roe_ttm == IF GtZero(avg_equity) THEN RatioPercent(ttm_net_income, avg_equity) ELSE NaN
        roa_ttm == IF GtZero(avg_assets) THEN RatioPercent(ttm_net_income, avg_assets) ELSE NaN
    IN  [CodInst |-> d[inst_data[1]].CodInst,
         NomeInstituicao |-> d[inst_data[1]].NomeInstituicao,
         AnoMes_Q |-> d[inst_data[i + 1]].AnoMes_Q,
         ROE_TTM |-> IF ~isna(roe_ttm) THEN round(roe_ttm, 4) ELSE None,
         ROA_TTM |-> IF ~isna(roa_ttm) THEN round(roa_ttm, 4) ELSE None,
         TTM_Net_Income |-> IF ~isna(ttm_net_income) THEN round(ttm_net_income, 2) ELSE None,
         Avg_Equity |-> IF ~isna(avg_equity) THEN round(avg_equity, 2) ELSE None,
         Avg_Assets |-> IF ~isna(avg_assets) THEN round(avg_assets, 2) ELSE None,
         Quarters_Used_Income |-> Len(last_4_quarters),
         Quarters_Used_Balance |-> Len(equity_periods)]

\* The rows of one institution: none with fewer than 4 observations, else
\* one for each position 3 .. len(inst_data) - 1.
institution_results(d, inst_data) ==
    IF Len(inst_data) < 4 THEN <<>>
    ELSE [j \in 1..(Len(inst_data) - 3) |-> basic_result(d, inst_data, j + 2)]

\* ttm_results after the loop over the institutions.
RECURSIVE ttm_results(_, _)
ttm_results(d, sorted) ==
    IF sorted = <<>> THEN <<>>
    ELSE institution_results(d, Head(sorted)) \o ttm_results(d, Tail(sorted))

BasicNullable == {"ROE_TTM", "ROA_TTM", "TTM_Net_Income", "Avg_Equity", "Avg_Assets"}

\* pd.DataFrame(ttm_results): in a column that holds a number, None is
\* stored as NaN.
ttm_df(results) ==
    [j \in 1..Len(results) |->
        [c \in DOMAIN results[j] |->
            IF /\ c \in BasicNullable
               /\ results[j][c] = None
               /\ \E i \in 1..Len(results) : results[i][c] # None
            THEN NaN
            ELSE results[j][c]]]

\* The run of the script on the table d of resumo_quarterly.csv (with the
\* columns the script reads), for one outcome of its sorts: False if the
\* file does not exist; otherwise the table written to
\* basic_ttm_ratios_quarterly.csv and True, or, with no row at all, the
\* KeyError of selecting 'ROE_TTM' from a table without columns, raised
\* after the empty table was written.
calculate_basic_ttm_ratios(exists, d, sorted) ==
    IF ~exists THEN [value |-> FALSE]
    ELSE IF ttm_results(d, sorted) = <<>>
    THEN Raised @@ [ttm_df |-> <<>>]
    ELSE [value |-> TRUE, ttm_df |-> ttm_df(ttm_results(d, sorted))]

CalcBasicTtmRatios ==
    /\ \E exists \in BOOLEAN : \E sorted \in SortOutcomes(df, unique(df)) :
          last' = [op |-> "calculate_basic_ttm_ratios"]
                  @@ calculate_basic_ttm_ratios(exists, df, sorted)
    /\ UNCHANGED <<quarter_sequence, df, columns, institution_code, period>>

\* The script and the calculator's batch operation, on the series of Spec
\* and on the panels.
InitBasic ==
    /\ quarter_sequence = _generate_quarter_sequence
    /\ \/ df \in SeriesSet
       \/ df \in PanelSeries
    /\ columns = RequiredColumns
    /\ institution_code = "X"
    /\ period = "2014Q1"
    /\ last = NoCall

NextBasic ==
    \/ CalcBasicTtmRatios
    \/ CalcAllTtmRatios

SpecBasic == InitBasic /\ [][NextBasic]_vars

\* The script returned after writing a table with rows.
WroteTable == ReturnedBy("calculate_basic_ttm_ratios") /\ "value" \in DOMAIN last /\ last.value

----------------------------------------------------------------------------
(* C24 - C26, C29: the rows of the script.                                 *)

\* The table the script wrote is the one it writes for the sort outcome
\* sorted.
WrittenFor(sorted) == last.ttm_df = ttm_df(ttm_results(df, sorted))

\* The rows at the 0-based positions a .. b of the sorted rows inst_data.
Positions(inst_data, a, b) == Rows(df, SubSeq(inst_data, a + 1, b + 1))

\* The recorded counts of the row of position i of inst_data are the numbers
\* of values that were summed and averaged for it.
CountsAreValuesUsed(inst_data, i) ==
    LET row      == basic_result(df, inst_data, i)
        balances == Positions(inst_data, IF i >= 4 THEN i - 4 ELSE i - 3, i)
    IN  /\ row.Quarters_Used_Income = CountNum(Positions(inst_data, i - 3, i), "Lucro_Liquido")
        /\ row.Quarters_Used_Balance = CountNum(balances, "Patrimonio_Liquido")
        /\ row.Quarters_Used_Balance = CountNum(balances, "Ativo_Total")

\* C24: every result row, of the calculator's batch and of the script,
\* records how many quarterly values were summed into its TTM net income and
\* how many were averaged into its denominators.
C24_RowsRecordQuartersUsed ==
    /\ ReturnedTable =>
          \A j \in 1..Len(last.results_df) :
             LET row == last.results_df[j]
             IN  /\ {"Quarters_Used_Income", "Quarters_Used_Balance"} \subseteq DOMAIN row
                 /\ row.Quarters_Used_Income =
                      CountNum(WindowRows(row.CodInst, row.AnoMes_Q, 4), "Lucro_Liquido")
                 /\ row.Quarters_Used_Balance =
                      CountNum(WindowRows(row.CodInst, row.AnoMes_Q, 5), "Patrimonio_Liquido")
    /\ WroteTable =>
          \E sorted \in SortOutcomes(df, unique(df)) :
             /\ WrittenFor(sorted)
             /\ \A a \in 1..Len(sorted) : \A i \in 3..(Len(sorted[a]) - 1) :
                   CountsAreValuesUsed(sorted[a], i)

\* y is v rounded to 2 decimal places.
IsRoundedTo2(y, v) ==
    /\ ~isna(y)
    /\ 100 % y.den = 0
    /\ Abs(y.num * v.den - v.num * y.den) * 200 <= y.den * v.den

\* A stored amount against the value it was computed from.
AmountCellAgrees(cell, value) ==
    IF isna(value) THEN Missing(cell) ELSE (~Missing(cell) /\ IsRoundedTo2(cell, value))

\* Number of rows the script writes for sorted rows of length n.
RowsWritten(n) == IF n < 4 THEN 0 ELSE n - 3

\* Place in the written table of the row of position i of the a-th
\* institution.
RECURSIVE RowIndex(_, _, _)
RowIndex(sorted, a, i) ==
    IF a = 1 THEN i - 2
    ELSE RowsWritten(Len(sorted[1])) + RowIndex(Tail(sorted), a - 1, i)

RECURSIVE TotalRowsWritten(_)
TotalRowsWritten(sorted) ==
    IF sorted = <<>> THEN 0
    ELSE RowsWritten(Len(Head(sorted))) + TotalRowsWritten(Tail(sorted))

\* The row written for position i of inst_data is the one the claim
\* describes (amounts to 2 decimal places, ratios to 4).
RowIsAsDescribed(row, inst_data, i) ==
    LET income  == Num(SumNum(Positions(inst_data, i - 3, i), "Lucro_Liquido"))
        window  == Positions(inst_data, IF i >= 4 THEN i - 4 ELSE i - 3, i)
        equity  == ColumnMean(window, "Patrimonio_Liquido")
        assets  == ColumnMean(window, "Ativo_Total")
    IN  /\ row.CodInst = df[inst_data[i + 1]].CodInst
        /\ row.AnoMes_Q = df[inst_data[i + 1]].AnoMes_Q
        /\ AmountCellAgrees(row.TTM_Net_Income, income)
        /\ AmountCellAgrees(row.Avg_Equity, equity)
        /\ AmountCellAgrees(row.Avg_Assets, assets)
        /\ RatioCellAgrees(row.ROE_TTM,
                           IF GtZero(equity) THEN RatioPercent(income, equity) ELSE NaN)
        /\ RatioCellAgrees(row.ROA_TTM,
                           IF GtZero(assets) THEN RatioPercent(income, assets) ELSE NaN)

\* |a - b| < 0.01
WithinOneHundredth(a, b) == Abs(a.num * b.den - b.num * a.den) * 100 < a.den * b.den

\* The validation test_ttm_methodology_accuracy makes of one sampled row of
\* the written table (a row with a ROE), inst_data being the sorted rows of
\* the sample's institution: the ROE is recomputed at the position of the
\* first row of the sample's period and compared with the stored one; no
\* validation is recorded if that position is below 3 or the recomputed
\* average equity is not > 0.
validation_result(d, inst_data, sample) ==
    LET period_idx == SelectSeq(inst_data, LAMBDA k : d[k].AnoMes_Q = sample.AnoMes_Q)
        period_pos == (CHOOSE j \in 1..Len(inst_data) : inst_data[j] = period_idx[1]) - 1
        last_4_quarters == Rows(d, PySlice(inst_data, period_pos - 3, period_pos + 1))
        equity_periods  == IF period_pos >= 4
                           THEN Rows(d, PySlice(inst_data, period_pos - 4, period_pos + 1))
                           ELSE last_4_quarters
        ttm_income_manual == ColumnSum(last_4_quarters, "Lucro_Liquido")
        avg_equity_manual == ColumnMean(equity_periods, "Patrimonio_Liquido")
        roe_ttm_manual == RatioPercent(ttm_income_manual, avg_equity_manual)
    IN  IF period_idx = <<>> THEN [performed |-> FALSE]
        ELSE IF period_pos < 3 THEN [performed |-> FALSE]
        ELSE IF ~GtZero(avg_equity_manual) THEN [performed |-> FALSE]
        ELSE [performed |-> TRUE,
              match |-> WithinOneHundredth(roe_ttm_manual, sample.ROE_TTM)]

UniquelyKeyed == \A j, k \in 1..Len(df) : PairOf(df[j]) = PairOf(df[k]) => j = k

\* The index labels of the rows of the institution of row k whose quarter is
\* one of the four calendar quarters ending at the quarter of row k.
CalendarWindow(k) ==
    { j \in 1..Len(df) :
        /\ df[j].CodInst = df[k].CodInst
        /\ Ordinal(df[j].AnoMes_Q) >= 1
        /\ Ordinal(df[k].AnoMes_Q) - Ordinal(df[j].AnoMes_Q) \in 0..3 }

\* C26: the rows the script sums into the TTM net income of an output row at
\* period P are the institution's observations of the calendar quarters P-3,
\* P-2, P-1 and P, so the window never spans more than twelve months.
C26_ScriptSumsCalendarWindow ==
    ReturnedBy("calculate_basic_ttm_ratios") /\ "ttm_df" \in DOMAIN last =>
        \A sorted \in SortOutcomes(df, unique(df)) :
           \A a \in 1..Len(sorted) : \A i \in 3..(Len(sorted[a]) - 1) :
              { sorted[a][j] : j \in (i - 2)..(i + 1) } = CalendarWindow(sorted[a][i + 1])

----------------------------------------------------------------------------
(* C27: the canonical quarter sequence.                                    *)

\* The label of quarter q of a year, as the claim writes it.
YearQuarter(year, q) == ToString(year) \o "Q" \o ToString(q)

\* The label of the quarter that comes n quarters after 2013Q1.
NthQuarter(n) == YearQuarter(2013 + (n \div 4), (n % 4) + 1)

\* Labels that are no quarter of 2013..2024: quarters of the years around
\* them, and quarter numbers 0 and 5.
ForeignLabels ==
    { YearQuarter(year, q) : year \in {2011, 2012, 2025, 2026}, q \in 1..4 }
      \cup { YearQuarter(year, q) : year \in 2013..2024, q \in {0, 5} }

\* C27: the sequence is contiguous, chronological and without duplicate:
\* {year}Q{q} has index (year - 2013) x 4 + (q - 1) for every year 2013..2024
\* and q in 1..4, the label N places before a label is the quarter N quarters
\* earlier, and every other label has index -1.
C27_QuarterSequenceIsContiguous ==
    /\ \A year \in 2013..2024 : \A q \in 1..4 :
          _get_period_index(quarter_sequence, YearQuarter(year, q))
            = (year - 2013) * 4 + (q - 1)
    /\ \A j, k \in 1..Len(quarter_sequence) :
          quarter_sequence[j] = quarter_sequence[k] => j = k
    /\ \A n \in 0..(Len(quarter_sequence) - 1) : \A N \in 0..n :
          quarter_sequence[n - N + 1] = NthQuarter(n - N)
    /\ \A label \in ForeignLabels : _get_period_index(quarter_sequence, label) = -1
    /\ \A k \in 1..Len(quarter_sequence) :
          \E year \in 2013..2024 : \E q \in 1..4 : quarter_sequence[k] = YearQuarter(year, q)

\* C27 witness: a calculator whose sequence runs from 2013Q1 at index 0 to
\* 2024Q4 at index 47 was asked for 2025Q1, which has index -1.
C27_Witness ==
    /\ _get_period_index(quarter_sequence, "2013Q1") = 0
    /\ _get_period_index(quarter_sequence, "2024Q4") = 47
    /\ period = "2025Q1"
    /\ _get_period_index(quarter_sequence, period) = -1
    /\ ReturnedBy("calculate_average_balance")

----------------------------------------------------------------------------
(* C28: what a defined average says about the TTM income.                  *)

\* C28: on a uniquely keyed series, a defined average balance of (i, P) on
\* some field means a defined TTM income of (i, P) on every field.  Hence in
\* the batch output a row without ROE_TTM but with Avg_Equity has
\* Avg_Equity <= 0, and a row without TTM_Net_Income has neither Avg_Equity
\* nor Avg_Assets.
C28_DefinedAverageImpliesDefinedIncome ==
    UniquelyKeyed =>
        /\ (ReturnedBy("calculate_average_balance") /\ ~isna(last.value)) =>
              \A col \in FlowColumns :
                 ~isna(calculate_ttm_income(quarter_sequence, df,
                                            institution_code, period, col).value)
        /\ ReturnedTable =>
              \A j \in 1..Len(last.results_df) :
                 LET row == last.results_df[j]
                 IN  /\ (Missing(row.ROE_TTM) /\ ~Missing(row.Avg_Equity))
                           => LeqZero(row.Avg_Equity)
                     /\ Missing(row.TTM_Net_Income)
                           => (Missing(row.Avg_Equity) /\ Missing(row.Avg_Assets))

\* C28 witness: the batch operation returned, for the distress series, a row
\* without ROE_TTM whose Avg_Equity is defined and negative and whose
\* TTM_Net_Income is defined.
C28_Witness ==
    /\ UniquelyKeyed
    /\ ReturnedTable
    /\ \E j \in 1..Len(last.results_df) :
          /\ Missing(last.results_df[j].ROE_TTM)
          /\ ~Missing(last.results_df[j].Avg_Equity)
          /\ LeqZero(last.results_df[j].Avg_Equity)
          /\ ~Missing(last.results_df[j].TTM_Net_Income)

----------------------------------------------------------------------------
(* C29: the script against the calculator.                                 *)

\* Every row of df has a net income, an equity and a total of assets.
AllValuesDefined ==
    \A j \in 1..Len(df) :
       /\ ~isna(df[j].Lucro_Liquido)
       /\ ~isna(df[j].Patrimonio_Liquido)
       /\ ~isna(df[j].Ativo_Total)

\* The observations of inst cover consecutive quarters of the canonical
\* sequence, without a gap.
CompleteHistory(inst) ==
    LET ordinals == { Ordinal(df[j].AnoMes_Q) : j \in { k \in 1..Len(df) : df[k].CodInst = inst } }
    IN  /\ \A o \in ordinals : o >= 1
        /\ \A o \in ordinals : \A u \in ordinals :
              \A between \in o..u : between \in ordinals

\* Two cells hold the same: both no value, or the same number.
SameCell(x, y) ==
    IF Missing(x) \/ Missing(y) THEN Missing(x) /\ Missing(y) ELSE x = y

\* The row of a table for a pair.
RowOfPair(table, pair) == table[CHOOSE j \in 1..Len(table) : PairOf(table[j]) = pair]

\* C29: on a uniquely keyed series with all values defined, for every
\* institution with a complete history, the script and the calculator's
\* batch operation give the same ROE_TTM and ROA_TTM, defined or not, for
\* every observation at sorted position >= 4.
C29_ScriptAgreesWithCalculator ==
    (WroteTable /\ UniquelyKeyed /\ AllValuesDefined) =>
        \A sorted \in SortOutcomes(df, unique(df)) :
           \A a \in 1..Len(sorted) :
              CompleteHistory(df[sorted[a][1]].CodInst) =>
                 \A i \in 4..(Len(sorted[a]) - 1) :
                    LET script     == last.ttm_df[RowIndex(sorted, a, i)]
                        calculator == RowOfPair(
                            calculate_all_ttm_ratios(quarter_sequence, columns, df).results_df,
                            PairOf(df[sorted[a][i + 1]]))
                    IN  /\ PairOf(script) = PairOf(calculator)
                        /\ SameCell(script.ROE_TTM, calculator.ROE_TTM)
                        /\ SameCell(script.ROA_TTM, calculator.ROA_TTM)

\* C29 witness: the script wrote, for the complete history of X from 2013Q2
\* to 2014Q2, a row for 2014Q2 (position 4) with the ROE 48.4848 and a row
\* for 2014Q1 (position 3) with a ROE, where the calculator has none.
C29_Witness ==
    /\ WroteTable /\ UniquelyKeyed /\ AllValuesDefined /\ CompleteHistory("X")
    /\ \E j \in 1..Len(last.ttm_df) :
          /\ last.ttm_df[j].AnoMes_Q = "2014Q2"
          /\ last.ttm_df[j].Quarters_Used_Balance = 5
          /\ last.ttm_df[j].ROE_TTM = Frac(484848, 10000)
    /\ \E j \in 1..Len(last.ttm_df) :
          /\ last.ttm_df[j].AnoMes_Q = "2014Q1"
          /\ ~Missing(last.ttm_df[j].ROE_TTM)
          /\ isna(calculate_roe_ttm(quarter_sequence, df, "X", "2014Q1").value)

----------------------------------------------------------------------------
(* A series that grows: observations with new (institution, period) keys   *)
(* are appended between the calls of the ratio operations.                 *)

\* Largest number of rows the growing series reaches.
MaxAppendRows == 6

\* The observations that may be appended, one for each key: the five
\* quarters of X of ScenarioHealthy, a quarter of X after them in which its
\* equity is deep below zero, and one quarter of Y.
AppendRows ==
    ScenarioHealthy \o
    << Obs("X", "2014Q2", Num(-4), Num(-600), Num(1050), Num(630), Num(9)),
       PanelRows[7] >>

\* (institution_code, period) arguments asked of the growing series.
AppendQueries == { <<"X", "2014Q1">>, <<"X", "2014Q2">> }

InitAppend ==
    /\ quarter_sequence = _generate_quarter_sequence
    /\ df = <<>>
    /\ columns = RequiredColumns
    /\ \E q \in AppendQueries : institution_code = q[1] /\ period = q[2]
    /\ last = NoCall

\* An observation whose key the series does not hold is appended.
AppendObservation ==
    /\ Len(df) < MaxAppendRows
    /\ \E k \in 1..Len(AppendRows) :
          /\ PairOf(AppendRows[k]) \notin PairsOf(df)
          /\ df' = Append(df, AppendRows[k])
    /\ UNCHANGED <<quarter_sequence, columns, institution_code, period, last>>

NextAppend ==
    \/ AppendObservation
    \/ CalcRoeTtm
    \/ CalcRoaTtm
    \/ CalcNimTtm

SpecAppend == InitAppend /\ [][NextAppend]_vars

----------------------------------------------------------------------------
(* C30: results on a growing series.                                       *)

RatioOps == {"calculate_roe_ttm", "calculate_roa_ttm", "calculate_nim_ttm"}

\* The ratio operation op called for (institution_code, period) on d.
RatioOn(op, d) ==
    CASE op = "calculate_roe_ttm" -> calculate_roe_ttm(quarter_sequence, d, institution_code, period)
      [] op = "calculate_roa_ttm" -> calculate_roa_ttm(quarter_sequence, d, institution_code, period)
      [] op = "calculate_nim_ttm" -> calculate_nim_ttm(quarter_sequence, d, institution_code, period)

\* The average in the audit record of a result of op.
AuditAverage(op, r) ==
    CASE op = "calculate_roe_ttm" -> r.details.avg_equity
      [] op = "calculate_roa_ttm" -> r.details.avg_assets
      [] op = "calculate_nim_ttm" -> r.details.avg_earning_assets

\* A result that is defined, or undefined because its average is not
\* positive.
Settled(op, r) == ~isna(r.value) \/ LeqZero(AuditAverage(op, r))

\* C30: stability under append.  An append leaves every defined result of
\* roe, roa and nim for (i, P), and every result undefined for a
\* non-positive average, as it was, value and audit record; a result turns
\* from undefined to defined only when the appended row is one of i for a
\* quarter of P-4..P; and a call made after any appends returns what the
\* last call of that operation returned if that was such a result.
C30_ResultsAreStableUnderAppend ==
    [][ /\ (df' # df) =>
              \A op \in RatioOps :
                 LET before == RatioOn(op, df)
                     after  == RatioOn(op, df')
                 IN  /\ Settled(op, before) => Outcome(after) = Outcome(before)
                     /\ (isna(before.value) /\ ~isna(after.value)) =>
                           /\ df'[Len(df')].CodInst = institution_code
                           /\ Ordinal(df'[Len(df')].AnoMes_Q) >= 1
                           /\ Ordinal(period) - Ordinal(df'[Len(df')].AnoMes_Q) \in 0..4
        /\ (last.op \in RatioOps /\ last'.op = last.op /\ Settled(last.op, last))
              => Outcome(last') = Outcome(last) ]_vars

\* C30 witness: the ROE of X at 2014Q1 was returned on the five quarters
\* 2013Q1..2014Q1, and a sixth observation was appended after them; the
\* recorded ROE is still the one of the six-row series.
C30_Witness ==
    /\ ReturnedBy("calculate_roe_ttm")
    /\ institution_code = "X" /\ period = "2014Q1"
    /\ ~isna(last.value)
    /\ Len(df) = 6
    /\ Outcome(last) = Outcome(calculate_roe_ttm(quarter_sequence, SubSeq(df, 1, 5), "X", "2014Q1"))
    /\ Outcome(last) = Outcome(calculate_roe_ttm(quarter_sequence, df, "X", "2014Q1"))

====
